---- MODULE Spec2Model ----
(***************************************************************************)
(* A model of github.com/mickaelvieira/responder: the content formatter,   *)
(* the options and constructors of a Responder, and the send operations    *)
(* driving an http.ResponseWriter and a *slog.Logger.                      *)
(*                                                                         *)
(* Go strings and byte slices are sequences of byte codes.  A []byte is a  *)
(* reference into the heap (a sequence of byte sequences, the index being  *)
(* the address), so that sharing of storage is observable.                 *)
(***************************************************************************)
EXTENDS Integers, Sequences, FiniteSets, TLC

VARIABLES
    pc,         \* position of the caller / of the running send operation
    ctor,       \* the constructor the caller called
    opts,       \* the options the caller passed to it
    ctype,      \* the content type New was called with
    resp,       \* the responder: contentType and options
    op,         \* the running operation: name, status code, argument, cause
    formatted,  \* the value handed to the content formatter
    content,    \* the []byte the content formatter returned (heap address)
    heap,       \* storage of byte slices
    rw,         \* the response writer: headers, status, body, calls received
    log,        \* entries received by the logger
    efCalls,    \* invocations of error formatters: <<function, argument>>
    cfCalls,    \* invocations of content formatters: <<function, argument>>
    used,       \* the marshaling routines the default content formatter called
    threads     \* the sends that run concurrently on resp, one record per thread

vars == <<pc, ctor, opts, ctype, resp, op, formatted, content, heap, rw, log, efCalls, cfCalls, used,
          threads>>

----------------------------------------------------------------------------
(* Bounds *)

MaxOpts == 2        \* longest list of options a caller passes to a constructor
MaxStrLen == 2      \* longest string or byte slice a caller passes
MaxThreads == 2     \* threads that send on one responder at the same time

----------------------------------------------------------------------------
(* Program constants *)

GenericErrorMessage ==      \* "an error occurred"
    <<97, 110, 32, 101, 114, 114, 111, 114, 32, 111, 99, 99, 117, 114, 114, 101, 100>>

TextContentType == "text/plain; charset=utf-8"
CSVContentType == "text/csv; charset=utf-8"
HTMLContentType == "text/html; charset=utf-8"
JSONContentType == "application/json; charset=utf-8"
XMLContentType == "application/xml; charset=utf-8"

status200 == 200
status201 == 201
status202 == 202
status204 == 204
status301 == 301
status302 == 302
status303 == 303
status307 == 307
status400 == 400
status401 == 401
status403 == 403
status404 == 404
status500 == 500

InvalidContentPrefix ==     \* "received invalid content - "
    <<114, 101, 99, 101, 105, 118, 101, 100, 32, 105, 110, 118, 97, 108, 105, 100,
      32, 99, 111, 110, 116, 101, 110, 116, 32, 45, 32>>

FailedToWrite ==            \* "failed to write response"
    <<102, 97, 105, 108, 101, 100, 32, 116, 111, 32, 119, 114, 105, 116, 101, 32,
      114, 101, 115, 112, 111, 110, 115, 101>>

----------------------------------------------------------------------------
(* Values of type any *)

\* the bytes callers build text from: 'a', '"', and 0xFF, which is not valid UTF-8
Chars == {97, 34, 255}

RECURSIVE SeqsUpTo(_, _)
SeqsUpTo(S, n) ==
    IF n = 0 THEN {<<>>}
    ELSE LET shorter == SeqsUpTo(S, n - 1)
         IN  shorter \cup {Append(s, x) : s \in {t \in shorter : Len(t) = n - 1}, x \in S}

Strs == SeqsUpTo(Chars, MaxStrLen)

MarshalCaps == {"xml", "json", "text"}  \* xml.Marshaler, json.Marshaler, encoding.TextMarshaler
DisplayCaps == {"stringer", "error"}    \* fmt.Stringer, error

\* k      : "nil" (untyped nil), "string", "bytes" or "obj" (any other dynamic type)
\* s      : the text of a string, or the Error field of a jsonError
\* ref    : the heap address of a []byte
\* caps   : the interfaces the dynamic type implements
\* fails  : the marshaling methods that return an error
\* nilptr : the value is a nil pointer of its dynamic type
\* recv   : the receiver kind of the type's methods ("value" or "pointer")
\* shape  : the structure json.Marshal sees when the type has no capability
Value(k, s, ref, caps, fails, nilptr, recv, shape) ==
    [k |-> k, s |-> s, ref |-> ref, caps |-> caps, fails |-> fails,
     nilptr |-> nilptr, recv |-> recv, shape |-> shape]

NilValue == Value("nil", <<>>, 0, {}, {}, FALSE, "value", "none")
StringValue(s) == Value("string", s, 0, {}, {}, FALSE, "value", "none")
BytesValue(a) == Value("bytes", <<>>, a, {}, {}, FALSE, "value", "none")
Marshaler(caps, fails, nilptr, recv) == Value("obj", <<>>, 0, caps, fails, nilptr, recv, "struct")
Plain(shape) == Value("obj", <<>>, 0, {}, {}, shape = "nilptr", "value", shape)
JSONErrorValue(s) == Value("obj", s, 0, {}, {}, FALSE, "value", "jsonError")
Displayable(caps) == Value("obj", <<>>, 0, caps, {}, FALSE, "value", "struct")
NilDisplayable(caps, recv) == Value("obj", <<>>, 0, caps, {}, TRUE, recv, "struct")

PlainShapes == {"map", "int", "chan", "func", "nilptr"}

Marshalers ==
    {Marshaler(c, f, FALSE, "value") : c \in (SUBSET MarshalCaps) \ {{}}, f \in SUBSET MarshalCaps}
    \cup {Marshaler({c}, {}, TRUE, r) : c \in MarshalCaps, r \in {"value", "pointer"}}

\* values a caller passes to the content formatter; a []byte is at address 1
ContentValues ==
    {NilValue} \cup {StringValue(s) : s \in Strs} \cup {BytesValue(1)}
    \cup {v \in Marshalers : v.fails \subseteq v.caps}
    \cup {Plain(p) : p \in PlainShapes}

\* values a caller passes to the success family
SendValues == {v \in ContentValues : Cardinality(v.caps) <= 1}

\* messages a caller passes to the error family
Messages ==
    {NilValue} \cup {StringValue(s) : s \in Strs}
    \cup {Displayable(c) : c \in (SUBSET DisplayCaps) \ {{}}}
    \cup {NilDisplayable({c}, r) : c \in DisplayCaps, r \in {"value", "pointer"}}
    \cup {Plain("map"), Plain("int")}

----------------------------------------------------------------------------
(* Message normalisation *)

StringerText == <<83>>      \* what String() returns: "S"
ErrorText == <<69>>         \* what Error() returns: "E"

\* the result of a function returning a string: the text, or a panic
Text(s) == [panics |-> FALSE, s |-> s]
TextPanic == [panics |-> TRUE, s |-> <<>>]

\* v.String(): a value method called through a nil pointer panics
CallString(v) == IF v.nilptr /\ v.recv = "value" THEN TextPanic ELSE Text(StringerText)

\* v.Error(): a value method called through a nil pointer panics
CallError(v) == IF v.nilptr /\ v.recv = "value" THEN TextPanic ELSE Text(ErrorText)

\* MessageToString with the error case above the fmt.Stringer case
MessageToString_ErrorFirst(message) ==
    IF message.k = "string" THEN Text(message.s)
    ELSE IF message.k = "obj" /\ "error" \in message.caps THEN CallError(message)
    ELSE IF message.k = "obj" /\ "stringer" \in message.caps THEN CallString(message)
    ELSE Text(GenericErrorMessage)

\* a type switch on string, fmt.Stringer, error, default
MessageToString(message) ==
    IF message.k = "string" THEN Text(message.s)
    ELSE IF message.k = "obj" /\ "stringer" \in message.caps THEN CallString(message)
    ELSE IF message.k = "obj" /\ "error" \in message.caps THEN CallError(message)
    ELSE Text(GenericErrorMessage)

----------------------------------------------------------------------------
(* encoding/json, as far as the program reaches it *)

\* one byte of a string as json.Marshal writes it (HTML escaping on)
JSONEscape(b) ==
    IF b = 34 THEN <<92, 34>>                           \* "  ->  \"
    ELSE IF b = 92 THEN <<92, 92>>                      \* \  ->  \\
    ELSE IF b = 60 THEN <<92, 117, 48, 48, 51, 99>>     \* <  ->  \u003c
    ELSE IF b = 62 THEN <<92, 117, 48, 48, 51, 101>>    \* >  ->  \u003e
    ELSE IF b = 38 THEN <<92, 117, 48, 48, 50, 54>>     \* &  ->  \u0026
    ELSE IF b >= 248 THEN <<92, 117, 102, 102, 102, 100>>   \* invalid UTF-8  ->  \ufffd
    ELSE <<b>>

RECURSIVE JSONEscapeAll(_)
JSONEscapeAll(s) ==
    IF s = <<>> THEN <<>> ELSE JSONEscape(Head(s)) \o JSONEscapeAll(Tail(s))

JSONString(s) == <<34>> \o JSONEscapeAll(s) \o <<34>>

UnsupportedChan ==          \* "json: unsupported type: chan int"
    <<106, 115, 111, 110, 58, 32, 117, 110, 115, 117, 112, 112, 111, 114, 116, 101,
      100, 32, 116, 121, 112, 101, 58, 32, 99, 104, 97, 110, 32, 105, 110, 116>>
UnsupportedFunc ==          \* "json: unsupported type: func()"
    <<106, 115, 111, 110, 58, 32, 117, 110, 115, 117, 112, 112, 111, 114, 116, 101,
      100, 32, 116, 121, 112, 101, 58, 32, 102, 117, 110, 99, 40, 41>>

\* the result of a marshaling routine: the bytes, or the error, or a panic
Ok(b, routine) == [panics |-> FALSE, err |-> FALSE, b |-> b, e |-> <<>>, used |-> <<routine>>]
Err(e, routine) == [panics |-> FALSE, err |-> TRUE, b |-> <<>>, e |-> e, used |-> <<routine>>]
Panic(routine) == [panics |-> TRUE, err |-> FALSE, b |-> <<>>, e |-> <<>>, used |-> <<routine>>]

\* json.Marshal(v) of a value whose type has no marshaling method
jsonMarshal(v) ==
    IF v.shape = "chan" THEN Err(UnsupportedChan, "json.Marshal")
    ELSE IF v.shape = "func" THEN Err(UnsupportedFunc, "json.Marshal")
    ELSE IF v.nilptr THEN Ok(<<110, 117, 108, 108>>, "json.Marshal")               \* null
    ELSE IF v.shape = "int" THEN Ok(<<52, 50>>, "json.Marshal")                    \* 42
    ELSE IF v.shape = "jsonError"                                                  \* {"error":"..."}
        THEN Ok(<<123, 34, 101, 114, 114, 111, 114, 34, 58>> \o JSONString(v.s) \o <<125>>,
                "json.Marshal")
    ELSE Ok(<<123, 125>>, "json.Marshal")                                          \* {}

----------------------------------------------------------------------------
(* The marshaling methods of the values *)

XMLBytes == <<60, 120, 47, 62>>                     \* what MarshalXML writes: <x/>
JSONBytes == <<123, 34, 106, 34, 58, 49, 125>>      \* what MarshalJSON returns: {"j":1}
TextBytes == <<84, 69, 88, 84, 58, 116>>            \* what MarshalText returns: TEXT:t
XMLError ==                 \* "intentional XML marshal error"
    <<105, 110, 116, 101, 110, 116, 105, 111, 110, 97, 108, 32, 88, 77, 76, 32,
      109, 97, 114, 115, 104, 97, 108, 32, 101, 114, 114, 111, 114>>
JSONError ==                \* "intentional JSON marshal error"
    <<105, 110, 116, 101, 110, 116, 105, 111, 110, 97, 108, 32, 74, 83, 79, 78, 32,
      109, 97, 114, 115, 104, 97, 108, 32, 101, 114, 114, 111, 114>>
TextError ==                \* "intentional text marshal error"
    <<105, 110, 116, 101, 110, 116, 105, 111, 110, 97, 108, 32, 116, 101, 120, 116, 32,
      109, 97, 114, 115, 104, 97, 108, 32, 101, 114, 114, 111, 114>>

\* xml.Marshal(v) of an xml.Marshaler: the encoder skips a nil pointer without
\* calling MarshalXML, and otherwise returns what MarshalXML wrote or its error
xmlMarshal(v) ==
    IF v.nilptr THEN Ok(<<>>, "xml.Marshal")
    ELSE IF "xml" \in v.fails THEN Err(XMLError, "xml.Marshal")
    ELSE Ok(XMLBytes, "xml.Marshal")

\* v.MarshalJSON(): a value method called through a nil pointer panics
MarshalJSON(v) ==
    IF v.nilptr /\ v.recv = "value" THEN Panic("MarshalJSON")
    ELSE IF "json" \in v.fails THEN Err(JSONError, "MarshalJSON")
    ELSE Ok(JSONBytes, "MarshalJSON")

\* v.MarshalText(): a value method called through a nil pointer panics
MarshalText(v) ==
    IF v.nilptr /\ v.recv = "value" THEN Panic("MarshalText")
    ELSE IF "text" \in v.fails THEN Err(TextError, "MarshalText")
    ELSE Ok(TextBytes, "MarshalText")

----------------------------------------------------------------------------
(* The content formatter *)

\* a []byte result: a panic, or the address of the slice in the heap after the call
Returned(a, h, u) == [panics |-> FALSE, ref |-> a, heap |-> h, used |-> u]
Panicked(h, u) == [panics |-> TRUE, ref |-> 0, heap |-> h, used |-> u]
\* a newly allocated slice holding b
Fresh(b, h, u) == Returned(Len(h) + 1, Append(h, b), u)

\* []byte(v): the bytes of the string, in a new slice
StringToBytes(s) == s

\* invalidContent without the literal text in front of the error
invalidContent_NoPrefix(e) == e

\* fmt.Appendf(nil, "received invalid content - %s", err)
invalidContent(e) == InvalidContentPrefix \o e

\* return b, or the invalid-content text if err != nil
marshalled(r, h) ==
    IF r.panics THEN Panicked(h, r.used)
    ELSE IF r.err THEN Fresh(invalidContent(r.e), h, r.used)
    ELSE Fresh(r.b, h, r.used)

\* typeSwitch with the encoding.TextMarshaler case above the json.Marshaler case
typeSwitch_TextFirst(c) ==
    IF c.k = "string" THEN "string"
    ELSE IF c.k = "bytes" THEN "[]byte"
    ELSE IF "xml" \in c.caps THEN "xml.Marshaler"
    ELSE IF "text" \in c.caps THEN "encoding.TextMarshaler"
    ELSE IF "json" \in c.caps THEN "json.Marshaler"
    ELSE "default"

\* the case the type switch selects, in the order of its cases
typeSwitch(c) ==
    IF c.k = "string" THEN "string"
    ELSE IF c.k = "bytes" THEN "[]byte"
    ELSE IF "xml" \in c.caps THEN "xml.Marshaler"
    ELSE IF "json" \in c.caps THEN "json.Marshaler"
    ELSE IF "text" \in c.caps THEN "encoding.TextMarshaler"
    ELSE "default"

\* bytesCase returning a copy of the slice
bytesCase_Copies(c, h) == Fresh(h[c.ref], h, <<>>)

\* case []byte: return v
bytesCase(c, h) == Returned(c.ref, h, <<>>)

\* stringCase serializing the string as the default case does
stringCase_Quoted(c, h) == Fresh(JSONString(c.s), h, <<"json.Marshal">>)

\* case string: return []byte(v)
stringCase(c, h) == Fresh(StringToBytes(c.s), h, <<>>)

\* nilCase serializing nil as the default case does: null
nilCase_Null(h) == Fresh(<<110, 117, 108, 108>>, h, <<"json.Marshal">>)

\* if content == nil { return []byte{} }
nilCase(h) == Fresh(<<>>, h, <<>>)

contentFormatter(c, h) ==
    IF c.k = "nil" THEN nilCase(h)
    ELSE LET case == typeSwitch(c)
         IN  IF case = "string" THEN stringCase(c, h)
             ELSE IF case = "[]byte" THEN bytesCase(c, h)
             ELSE IF case = "xml.Marshaler" THEN marshalled(xmlMarshal(c), h)
             ELSE IF case = "json.Marshaler" THEN marshalled(MarshalJSON(c), h)
             ELSE IF case = "encoding.TextMarshaler" THEN marshalled(MarshalText(c), h)
             ELSE marshalled(jsonMarshal(c), h)

----------------------------------------------------------------------------
(* Formatters and options *)

\* the result of an error formatter: the value, or a panic
Formatted(v) == [panics |-> FALSE, v |-> v]
FormatterPanic == [panics |-> TRUE, v |-> NilValue]

\* stringFormatter answering the placeholder whatever the message
stringFormatter_Placeholder(message) == Formatted(StringValue(GenericErrorMessage))

\* the default error formatter
stringFormatter(message) ==
    LET t == MessageToString(message)
    IN  IF t.panics THEN FormatterPanic ELSE Formatted(StringValue(t.s))

\* jsonFormatter returning the text without the jsonError around it
jsonFormatter_Unwrapped(message) ==
    LET t == MessageToString(message)
    IN  IF t.panics THEN FormatterPanic ELSE Formatted(StringValue(t.s))

\* the error formatter of the JSON preset: jsonError{Error: MessageToString(message)}
jsonFormatter(message) ==
    LET t == MessageToString(message)
    IN  IF t.panics THEN FormatterPanic ELSE Formatted(JSONErrorValue(t.s))

\* an error formatter a caller supplies: fmt.Sprintf("ERROR: %s", message)
customFormatter(message) ==
    LET t == MessageToString(message)
    IN  IF t.panics THEN FormatterPanic
        ELSE Formatted(StringValue(<<69, 82, 82, 79, 82, 58, 32>> \o t.s))

\* a content formatter a caller supplies: it answers "custom" whatever it is given
customContentFormatter(c, h) == Fresh(<<99, 117, 115, 116, 111, 109>>, h, <<>>)

ErrorFormatters == {"stringFormatter", "jsonFormatter", "customFormatter"}
ContentFormatters == {"contentFormatter", "customContentFormatter"}

\* f(message) for the function value f
callErrorFormatter(f, message) ==
    IF f = "stringFormatter" THEN stringFormatter(message)
    ELSE IF f = "jsonFormatter" THEN jsonFormatter(message)
    ELSE customFormatter(message)

\* f(c) for the function value f
callContentFormatter(f, c, h) ==
    IF f = "contentFormatter" THEN contentFormatter(c, h)
    ELSE customContentFormatter(c, h)

WithLogger(l) == [field |-> "logger", value |-> l]
WithContentFormatter(f) == [field |-> "contentFormatter", value |-> f]
WithErrorFormatter(f) == [field |-> "errorFormatter", value |-> f]

\* modify(options): the field the modifier names is assigned
modify(m, options) == [options EXCEPT ![m.field] = m.value]

RECURSIVE applyModifiers(_, _)
applyModifiers(options, optionsModifiers) ==
    IF optionsModifiers = <<>> THEN options
    ELSE applyModifiers(modify(Head(optionsModifiers), options), Tail(optionsModifiers))

defaultOptions ==
    [logger |-> "nil", errorFormatter |-> "stringFormatter", contentFormatter |-> "contentFormatter"]

\* New filling in the defaults after the modifiers have run
New_DefaultsLast(contentType, optionsModifiers) ==
    [contentType |-> contentType, options |-> defaultOptions]

New(contentType, optionsModifiers) ==
    [contentType |-> contentType, options |-> applyModifiers(defaultOptions, optionsModifiers)]

\* JSONResponder with its own modifier ahead of the caller's
JSONResponder_Prepends(options) ==
    New(JSONContentType, <<WithErrorFormatter("jsonFormatter")>> \o options)

JSONResponder(options) ==
    New(JSONContentType, Append(options, WithErrorFormatter("jsonFormatter")))
TextResponder(options) == New(TextContentType, options)
HTMLResponder(options) == New(HTMLContentType, options)
CSVResponder(options) == New(CSVContentType, options)
XMLResponder(options) == New(XMLContentType, options)

\* the modifiers a caller can build, and the lists of them it passes
Modifiers ==
    {WithLogger(l) : l \in {"logger", "nil"}}
    \cup {WithContentFormatter(f) : f \in {"customContentFormatter", "nil"}}
    \cup {WithErrorFormatter(f) : f \in {"customFormatter", "nil"}}

OptionLists == SeqsUpTo(Modifiers, MaxOpts)

\* the content types a caller passes to New
ContentTypes == {JSONContentType, "application/octet-stream"}

----------------------------------------------------------------------------
(* The response writer and the logger *)

HeaderNames == {"Content-Type", "Content-Length", "X-Request-Id", "Location"}

Call(c, name, value, code, bytes) ==
    [call |-> c, name |-> name, value |-> value, code |-> code, bytes |-> bytes]

NewWriter ==
    [header |-> [n \in HeaderNames |-> IF n = "X-Request-Id" THEN "r1" ELSE ""],
     code |-> 0, body |-> <<>>, failed |-> FALSE, calls |-> <<>>]

\* rw.Header().Set(name, value)
HeaderSet(w, name, value) ==
    [w EXCEPT !.header[name] = value,
              !.calls = Append(@, Call("Header.Set", name, value, 0, <<>>))]

\* rw.WriteHeader(code)
WriteHeader(w, code) ==
    [w EXCEPT !.code = code, !.calls = Append(@, Call("WriteHeader", "", "", code, <<>>))]

\* rw.Write(b), of which the first n bytes reach the body; it fails or not
Write(w, b, n, fails) ==
    [w EXCEPT !.body = @ \o SubSeq(b, 1, n), !.failed = fails,
              !.calls = Append(@, Call("Write", "", "", 0, b))]

\* the requests and the locations a caller redirects with; a location is kept
\* as the header value and, for the body of the answer, as its bytes
Methods == {"GET", "HEAD", "POST"}
Locations == {"/a", "/b"}
LocationBytes(loc) == IF loc = "/a" THEN <<47, 97>> ELSE <<47, 98>>

\* http.StatusText(code) of the redirect codes
StatusText(code) ==
    CASE code = 301 -> <<77, 111, 118, 101, 100, 32, 80, 101, 114, 109, 97, 110, 101, 110, 116, 108, 121>>
      [] code = 302 -> <<70, 111, 117, 110, 100>>
      [] code = 303 -> <<83, 101, 101, 32, 79, 116, 104, 101, 114>>
      [] code = 307 -> <<84, 101, 109, 112, 111, 114, 97, 114, 121, 32, 82, 101, 100, 105, 114, 101, 99, 116>>

\* http.Redirect(w, r, url, code) on the writer, for a url that is an absolute path:
\* it sets Location, and Content-Type for GET and HEAD when the writer has none,
\* writes the status, and for GET a short HTML body.  The call is recorded as one
\* call on the writer; what it does inside is the transport's.
httpRedirect(w, method, url, code) ==
    LET hadCT == w.header["Content-Type"] # ""
        body == <<60, 97, 32, 104, 114, 101, 102, 61, 34>> \o LocationBytes(url) \o <<34, 62>>
                    \o StatusText(code) \o <<60, 47, 97, 62, 46, 10, 10>>
    IN  [w EXCEPT !.header["Location"] = url,
                  !.header["Content-Type"] =
                      IF ~hadCT /\ method \in {"GET", "HEAD"}
                      THEN "text/html; charset=utf-8" ELSE @,
                  !.code = code,
                  !.body = IF ~hadCT /\ method = "GET" THEN @ \o body ELSE @,
                  !.calls = Append(@, Call("http.Redirect", method, url, code, <<>>))]

Digit(d) ==
    CASE d = 0 -> "0" [] d = 1 -> "1" [] d = 2 -> "2" [] d = 3 -> "3" [] d = 4 -> "4"
      [] d = 5 -> "5" [] d = 6 -> "6" [] d = 7 -> "7" [] d = 8 -> "8" [] d = 9 -> "9"

\* fmt.Sprintf("%d", n) for n >= 0
RECURSIVE Sprintf_d(_)
Sprintf_d(n) == IF n < 10 THEN Digit(n) ELSE Sprintf_d(n \div 10) \o Digit(n % 10)

\* logger.Error(msg, "status", code, "error", err)
LogEntry(msg, code, err) == [level |-> "ERROR", msg |-> msg, status |-> code, error |-> err]

----------------------------------------------------------------------------
(* Response outcomes *)

Causes == {"nil", "cause"}      \* the err argument: nil, or an error

\* Success(status, body): a SuccessResponse
Success(status, body) == [variant |-> "SuccessResponse", status |-> status, body |-> body]

\* Error forgetting the internal error
Error_DropsCause(status, err, message) ==
    [variant |-> "ErrorResponse", status |-> status, err |-> "nil", message |-> message]

\* Error(status, err, message): an ErrorResponse
Error(status, err, message) ==
    [variant |-> "ErrorResponse", status |-> status, err |-> err, message |-> message]

\* r.Status()
Status(r) == r.status

\* the statuses a caller gives an outcome
OutcomeStatuses == {status202, status403}

\* SuccessResponse{} and ErrorResponse{}: the zero values of the two types
ZeroSuccessResponse == [variant |-> "SuccessResponse", status |-> 0, body |-> NilValue]
ZeroErrorResponse == [variant |-> "ErrorResponse", status |-> 0, err |-> "nil", message |-> <<>>]

\* the outcomes a caller holds: built by Success or Error with a status of its
\* choice (any int, 0 included), or declared without a constructor
Outcomes ==
    {Success(st, NilValue) : st \in OutcomeStatuses \cup {0}}
    \cup {Error(st, e, <<>>) : st \in OutcomeStatuses \cup {0}, e \in Causes}
    \cup {ZeroSuccessResponse, ZeroErrorResponse}

----------------------------------------------------------------------------
(* The state machine *)

NoResponder ==
    [contentType |-> "", options |-> [logger |-> "nil", errorFormatter |-> "nil",
                                      contentFormatter |-> "nil"]]
\* what the caller of Send built its outcome from; none for the other operations
NoOutcome == [variant |-> "none"]
NoOp == [name |-> "none", code |-> 0, arg |-> NilValue, cause |-> "nil", given |-> NoOutcome]

Init ==
    /\ pc = "start"
    /\ ctor = "none"
    /\ opts = <<>>
    /\ ctype = ""
    /\ resp = NoResponder
    /\ op = NoOp
    /\ formatted = NilValue
    /\ content = 0
    /\ heap = <<>>
    /\ rw = NewWriter
    /\ log = <<>>
    /\ efCalls = <<>>
    /\ cfCalls = <<>>
    /\ used = <<>>
    /\ threads = <<>>

\* the constructor name, called with the options o, calls New with the content
\* type ct and returns the responder r
Construct(name, ct, o, r) ==
    /\ pc = "start"
    /\ ctor' = name
    /\ opts' = o
    /\ ctype' = ct
    /\ resp' = r
    /\ pc' = "constructed"
    /\ UNCHANGED <<threads, op, formatted, content, heap, rw, log, efCalls, cfCalls, used>>

\* the caller keeps the responder and drops its list of options
Constructed ==
    /\ pc = "constructed"
    /\ opts' = <<>>
    /\ ctype' = ""
    /\ pc' = "idle"
    /\ UNCHANGED <<threads, ctor, resp, op, formatted, content, heap, rw, log, efCalls, cfCalls, used>>

CallNew ==
    /\ pc = "start"
    /\ \E ct \in ContentTypes, o \in OptionLists :
            Construct("New", ct, o, New(ct, o))
CallJSONResponder ==
    /\ pc = "start"
    /\ \E o \in OptionLists :
            Construct("JSONResponder", JSONContentType, o, JSONResponder(o))
CallTextResponder ==
    /\ pc = "start"
    /\ \E o \in OptionLists :
            Construct("TextResponder", TextContentType, o, TextResponder(o))
CallHTMLResponder ==
    /\ pc = "start"
    /\ \E o \in OptionLists :
            Construct("HTMLResponder", HTMLContentType, o, HTMLResponder(o))
CallCSVResponder ==
    /\ pc = "start"
    /\ \E o \in OptionLists :
            Construct("CSVResponder", CSVContentType, o, CSVResponder(o))
CallXMLResponder ==
    /\ pc = "start"
    /\ \E o \in OptionLists :
            Construct("XMLResponder", XMLContentType, o, XMLResponder(o))

\* the caller's []byte argument, with the bytes b, is at address 1 of the heap
CallerHeap(c, b) == IF c.k = "bytes" THEN <<b>> ELSE <<>>
CallerBytes(c) == IF c.k = "bytes" THEN Strs ELSE {<<>>}

\* contentFormatter(c) called on its own, as the package's tests do
CallContentFormatter ==
    /\ pc = "start"
    /\ \E c \in ContentValues : \E b \in CallerBytes(c) :
        LET r == contentFormatter(c, CallerHeap(c, b))
        IN  /\ formatted' = c
            /\ cfCalls' = Append(cfCalls, <<"contentFormatter", c>>)
            /\ used' = r.used
            /\ heap' = r.heap
            /\ content' = r.ref
            /\ pc' = IF r.panics THEN "panicked" ELSE "returned"
            /\ UNCHANGED <<threads, ctor, opts, ctype, resp, op, rw, log, efCalls>>

\* MessageToString(message) called on its own; the string it returns is kept at
\* address 1
CallMessageToString ==
    /\ pc = "start"
    /\ \E m \in Messages :
        LET t == MessageToString(m)
        IN  /\ formatted' = m
            /\ used' = <<"MessageToString">>
            /\ heap' = <<t.s>>
            /\ content' = 1
            /\ pc' = IF t.panics THEN "panicked" ELSE "textReturned"
            /\ UNCHANGED <<threads, ctor, opts, ctype, resp, op, rw, log, efCalls, cfCalls>>

\* res.Status() called on an outcome the caller holds; op.code keeps what it returns
CallStatus ==
    /\ pc = "start"
    /\ \E res \in Outcomes :
            /\ op' = [name |-> "Status", code |-> Status(res), arg |-> NilValue,
                      cause |-> "nil", given |-> res]
            /\ pc' = "statusReturned"
    /\ UNCHANGED <<threads, ctor, opts, ctype, resp, formatted, content, heap, rw, log, efCalls, cfCalls, used>>

\* result[0] = 'X' by the caller holding the returned slice
MutateResult ==
    /\ pc = "returned"
    /\ Len(heap[content]) > 0
    /\ heap' = [heap EXCEPT ![content][1] = 88]
    /\ pc' = "mutated"
    /\ UNCHANGED <<threads, ctor, opts, ctype, resp, op, formatted, content, rw, log, efCalls, cfCalls, used>>

\* SendSuccess handing its argument to the error formatter first
SendSuccess_ViaErrorFormatter(name, code, c, b) ==
    /\ pc = "idle"
    /\ op' = [name |-> name, code |-> code, arg |-> c, cause |-> "nil", given |-> NoOutcome]
    /\ formatted' = c
    /\ heap' = CallerHeap(c, b)
    /\ pc' = "errorFormatter"
    /\ UNCHANGED <<threads, ctor, opts, ctype, resp, content, rw, log, efCalls, cfCalls, used>>

\* a success-family operation is entered: its argument goes to the content formatter
SendSuccess(name, code, c, b) ==
    /\ pc = "idle"
    /\ op' = [name |-> name, code |-> code, arg |-> c, cause |-> "nil", given |-> NoOutcome]
    /\ formatted' = c
    /\ heap' = CallerHeap(c, b)
    /\ pc' = "contentFormatter"
    /\ UNCHANGED <<threads, ctor, opts, ctype, resp, content, rw, log, efCalls, cfCalls, used>>

Send200 ==
    /\ pc = "idle"
    /\ \E c \in SendValues : \E b \in CallerBytes(c) :
            SendSuccess("Send200", status200, c, b)
Send201 ==
    /\ pc = "idle"
    /\ \E c \in SendValues : \E b \in CallerBytes(c) :
            SendSuccess("Send201", status201, c, b)
Send202 ==
    /\ pc = "idle"
    /\ \E c \in SendValues : \E b \in CallerBytes(c) :
            SendSuccess("Send202", status202, c, b)

\* Send204 sending an empty body without asking the content formatter
Send204_EmptyBody ==
    /\ pc = "idle"
    /\ op' = [name |-> "Send204", code |-> status204, arg |-> NilValue, cause |-> "nil",
              given |-> NoOutcome]
    /\ formatted' = NilValue
    /\ heap' = << <<>> >>
    /\ content' = 1
    /\ pc' = "send"
    /\ UNCHANGED <<threads, ctor, opts, ctype, resp, rw, log, efCalls, cfCalls, used>>

Send204 == SendSuccess("Send204", status204, NilValue, <<>>)

\* an error-family operation is entered: logError comes first
SendError(name, code, err, message) ==
    /\ pc = "idle"
    /\ op' = [name |-> name, code |-> code, arg |-> message, cause |-> err, given |-> NoOutcome]
    /\ pc' = "logError"
    /\ UNCHANGED <<threads, ctor, opts, ctype, resp, formatted, content, heap, rw, log, efCalls, cfCalls, used>>

Send400 ==
    /\ pc = "idle"
    /\ \E e \in Causes, m \in Messages :
            SendError("Send400", status400, e, m)
Send401 ==
    /\ pc = "idle"
    /\ \E e \in Causes, m \in Messages :
            SendError("Send401", status401, e, m)
Send403 ==
    /\ pc = "idle"
    /\ \E e \in Causes, m \in Messages :
            SendError("Send403", status403, e, m)
Send404 ==
    /\ pc = "idle"
    /\ \E e \in Causes, m \in Messages :
            SendError("Send404", status404, e, m)
Send500 ==
    /\ pc = "idle"
    /\ \E e \in Causes, m \in Messages :
            SendError("Send500", status500, e, m)

\* a redirect that sets the pipeline's Content-Type before it calls http.Redirect
Redirect_SetsContentType(name, code) ==
    /\ pc = "idle"
    /\ \E method \in Methods, loc \in Locations :
            /\ op' = [name |-> name, code |-> code, arg |-> NilValue, cause |-> "nil",
                      given |-> [variant |-> "redirect", method |-> method,
                                 location |-> loc]]
            /\ rw' = httpRedirect(HeaderSet(rw, "Content-Type", resp.contentType),
                                  method, loc, code)
    /\ pc' = "redirected"
    /\ UNCHANGED <<threads, ctor, opts, ctype, resp, formatted, content, heap, log, efCalls, cfCalls, used>>

\* a redirect operation: http.Redirect(rw, req, loc, code) and nothing else
Redirect(name, code) ==
    /\ pc = "idle"
    /\ \E method \in Methods, loc \in Locations :
            /\ op' = [name |-> name, code |-> code, arg |-> NilValue, cause |-> "nil",
                      given |-> [variant |-> "redirect", method |-> method,
                                 location |-> loc]]
            /\ rw' = httpRedirect(rw, method, loc, code)
    /\ pc' = "redirected"
    /\ UNCHANGED <<threads, ctor, opts, ctype, resp, formatted, content, heap, log, efCalls, cfCalls, used>>

Redirect301 ==
    /\ pc = "idle"
    /\ Redirect("Redirect301", status301)
Redirect302 ==
    /\ pc = "idle"
    /\ Redirect("Redirect302", status302)
Redirect303 ==
    /\ pc = "idle"
    /\ Redirect("Redirect303", status303)
Redirect307 ==
    /\ pc = "idle"
    /\ Redirect("Redirect307", status307)

\* the logger is handed MessageToString(message), unless that call panics
LogMessage(next) ==
    LET t == MessageToString(op.arg)
    IN  IF t.panics
        THEN /\ pc' = "panicked"
             /\ log' = log
        ELSE /\ pc' = next
             /\ log' = Append(log, LogEntry(t.s, op.code, op.cause))

\* Send(rw, outcome) with an outcome built by Success or Error: an ErrorResponse
\* goes the way of the error family, a SuccessResponse the way of the success
\* family, each with the outcome's own status
Send ==
    /\ pc = "idle"
    /\ \/ \E st \in OutcomeStatuses, e \in Causes, m \in Strs :
            LET res == Error(st, e, m)
            IN  /\ op' = [name |-> "Send", code |-> Status(res),
                          arg |-> StringValue(res.message), cause |-> res.err,
                          given |-> [variant |-> "ErrorResponse", status |-> st,
                                     err |-> e, message |-> m]]
                /\ pc' = "logError"
                /\ UNCHANGED <<formatted, heap>>
       \/ \E st \in OutcomeStatuses, c \in SendValues : \E b \in CallerBytes(c) :
            LET res == Success(st, c)
            IN  /\ op' = [name |-> "Send", code |-> Status(res), arg |-> res.body,
                          cause |-> "nil",
                          given |-> [variant |-> "SuccessResponse", status |-> st,
                                     body |-> c]]
                /\ formatted' = res.body
                /\ heap' = CallerHeap(c, b)
                /\ pc' = "contentFormatter"
    /\ UNCHANGED <<threads, ctor, opts, ctype, resp, content, rw, log, efCalls, cfCalls, used>>

\* logError without the test of err
logError_AnyCause ==
    /\ pc = "logError"
    /\ IF resp.options.logger = "nil"
       THEN /\ pc' = "errorFormatter"
            /\ log' = log
       ELSE LogMessage("errorFormatter")
    /\ UNCHANGED <<threads, ctor, opts, ctype, resp, op, formatted, content, heap, rw, efCalls, cfCalls, used>>

\* r.logError(err, code, message)
logError ==
    /\ pc = "logError"
    /\ IF op.cause = "nil" \/ resp.options.logger = "nil"
       THEN /\ pc' = "errorFormatter"
            /\ log' = log
       ELSE LogMessage("errorFormatter")
    /\ UNCHANGED <<threads, ctor, opts, ctype, resp, op, formatted, content, heap, rw, efCalls, cfCalls, used>>

\* FormatError handing the message to the content formatter as it is
FormatError_Skipped ==
    /\ pc = "errorFormatter"
    /\ formatted' = op.arg
    /\ pc' = "contentFormatter"
    /\ UNCHANGED <<threads, ctor, opts, ctype, resp, op, content, heap, rw, log, efCalls, cfCalls, used>>

\* FormatError handing the error formatter the message already turned into text
FormatError_Normalizes ==
    /\ pc = "errorFormatter"
    /\ IF resp.options.errorFormatter = "nil"
       THEN /\ pc' = "panicked"
            /\ UNCHANGED <<formatted, efCalls>>
       ELSE LET t == MessageToString(op.arg)
                m == StringValue(t.s)
                r == callErrorFormatter(resp.options.errorFormatter, m)
            IN  /\ formatted' = r.v
                /\ efCalls' = Append(efCalls, <<resp.options.errorFormatter, m>>)
                /\ pc' = IF t.panics \/ r.panics THEN "panicked" ELSE "contentFormatter"
    /\ UNCHANGED <<threads, ctor, opts, ctype, resp, op, content, heap, rw, log, cfCalls, used>>

\* r.options.errorFormatter(message); calling a nil function panics
FormatError ==
    /\ pc = "errorFormatter"
    /\ IF resp.options.errorFormatter = "nil"
       THEN /\ pc' = "panicked"
            /\ UNCHANGED <<formatted, efCalls>>
       ELSE LET r == callErrorFormatter(resp.options.errorFormatter, op.arg)
            IN  /\ formatted' = r.v
                /\ efCalls' = Append(efCalls, <<resp.options.errorFormatter, op.arg>>)
                /\ pc' = IF r.panics THEN "panicked" ELSE "contentFormatter"
    /\ UNCHANGED <<threads, ctor, opts, ctype, resp, op, content, heap, rw, log, cfCalls, used>>

\* r.options.contentFormatter(...); calling a nil function panics
FormatContent ==
    /\ pc = "contentFormatter"
    /\ IF resp.options.contentFormatter = "nil"
       THEN /\ pc' = "panicked"
            /\ UNCHANGED <<content, heap, cfCalls, used>>
       ELSE LET r == callContentFormatter(resp.options.contentFormatter, formatted, heap)
            IN  /\ cfCalls' = Append(cfCalls, <<resp.options.contentFormatter, formatted>>)
                /\ used' = r.used
                /\ heap' = r.heap
                /\ content' = r.ref
                /\ pc' = IF r.panics THEN "panicked" ELSE "send"
    /\ UNCHANGED <<threads, ctor, opts, ctype, resp, op, formatted, rw, log, efCalls>>

\* SetContentType with the status written ahead of the header
SetContentType_AfterStatus ==
    /\ pc = "send"
    /\ rw' = HeaderSet(WriteHeader(rw, op.code), "Content-Type", resp.contentType)
    /\ pc' = "setContentLength"
    /\ UNCHANGED <<threads, ctor, opts, ctype, resp, op, formatted, content, heap, log, efCalls, cfCalls, used>>

\* send: rw.Header().Set("Content-Type", r.contentType)
SetContentType ==
    /\ pc = "send"
    /\ rw' = HeaderSet(rw, "Content-Type", resp.contentType)
    /\ pc' = "setContentLength"
    /\ UNCHANGED <<threads, ctor, opts, ctype, resp, op, formatted, content, heap, log, efCalls, cfCalls, used>>

\* SetContentLength counting the bytes of the body written so far
SetContentLength_OfBody ==
    /\ pc = "setContentLength"
    /\ rw' = HeaderSet(rw, "Content-Length", Sprintf_d(Len(rw.body)))
    /\ pc' = "writeHeader"
    /\ UNCHANGED <<threads, ctor, opts, ctype, resp, op, formatted, content, heap, log, efCalls, cfCalls, used>>

\* SetContentLength starting from an empty X-Request-Id header
SetContentLength_DropsOthers ==
    /\ pc = "setContentLength"
    /\ rw' = HeaderSet([rw EXCEPT !.header["X-Request-Id"] = ""],
                       "Content-Length", Sprintf_d(Len(heap[content])))
    /\ pc' = "writeHeader"
    /\ UNCHANGED <<threads, ctor, opts, ctype, resp, op, formatted, content, heap, log, efCalls, cfCalls, used>>

\* send: rw.Header().Set("Content-Length", fmt.Sprintf("%d", len(content)))
SetContentLength ==
    /\ pc = "setContentLength"
    /\ rw' = HeaderSet(rw, "Content-Length", Sprintf_d(Len(heap[content])))
    /\ pc' = "writeHeader"
    /\ UNCHANGED <<threads, ctor, opts, ctype, resp, op, formatted, content, heap, log, efCalls, cfCalls, used>>

\* send: rw.WriteHeader(code)
SendWriteHeader ==
    /\ pc = "writeHeader"
    /\ rw' = WriteHeader(rw, op.code)
    /\ pc' = "write"
    /\ UNCHANGED <<threads, ctor, opts, ctype, resp, op, formatted, content, heap, log, efCalls, cfCalls, used>>

\* the byte counts a failing Write can have written
Written(b) == {n \in {0, Len(b) - 1} : n >= 0}

\* SendWrite putting the entry of a failed write at the head of the log
SendWrite_LogsFirst ==
    /\ pc = "write"
    /\ \/ /\ rw' = Write(rw, heap[content], Len(heap[content]), FALSE)
          /\ log' = log
       \/ \E n \in Written(heap[content]) :
            /\ rw' = Write(rw, heap[content], n, TRUE)
            /\ log' = IF resp.options.logger = "nil" THEN log
                      ELSE <<LogEntry(FailedToWrite, op.code, "write error")>> \o log
    /\ pc' = "done"
    /\ UNCHANGED <<threads, ctor, opts, ctype, resp, op, formatted, content, heap, efCalls, cfCalls, used>>

\* SendWrite calling Write a second time after a failure
SendWrite_Retries ==
    /\ pc = "write"
    /\ \/ /\ rw' = Write(rw, heap[content], Len(heap[content]), FALSE)
          /\ log' = log
       \/ \E n \in Written(heap[content]) :
            /\ rw' = Write(Write(rw, heap[content], n, TRUE),
                           heap[content], Len(heap[content]), FALSE)
            /\ log' = IF resp.options.logger = "nil" THEN log
                      ELSE Append(log, LogEntry(FailedToWrite, op.code, "write error"))
    /\ pc' = "done"
    /\ UNCHANGED <<threads, ctor, opts, ctype, resp, op, formatted, content, heap, efCalls, cfCalls, used>>

\* send: _, err := rw.Write(content), and the log entry if it failed
SendWrite ==
    /\ pc = "write"
    /\ \/ /\ rw' = Write(rw, heap[content], Len(heap[content]), FALSE)
          /\ log' = log
       \/ \E n \in Written(heap[content]) :
            /\ rw' = Write(rw, heap[content], n, TRUE)
            /\ log' = IF resp.options.logger = "nil" THEN log
                      ELSE Append(log, LogEntry(FailedToWrite, op.code, "write error"))
    /\ pc' = "done"
    /\ UNCHANGED <<threads, ctor, opts, ctype, resp, op, formatted, content, heap, efCalls, cfCalls, used>>

\* the operation is over; the next one gets a new writer and an empty record
Return ==
    /\ pc \in {"done", "panicked", "returned", "mutated", "textReturned", "statusReturned",
              "redirected"}
    /\ pc' = IF resp = NoResponder THEN "start" ELSE "idle"
    /\ op' = NoOp
    /\ formatted' = NilValue
    /\ content' = 0
    /\ heap' = <<>>
    /\ rw' = NewWriter
    /\ log' = <<>>
    /\ efCalls' = <<>>
    /\ cfCalls' = <<>>
    /\ used' = <<>>
    /\ UNCHANGED <<threads, ctor, opts, ctype, resp>>

Next ==
    \/ CallNew \/ CallJSONResponder \/ CallTextResponder
    \/ CallHTMLResponder \/ CallCSVResponder \/ CallXMLResponder
    \/ Constructed
    \/ CallContentFormatter \/ MutateResult \/ CallMessageToString \/ CallStatus
    \/ Send200 \/ Send201 \/ Send202 \/ Send204
    \/ Send400 \/ Send401 \/ Send403 \/ Send404 \/ Send500
    \/ Send
    \/ Redirect301 \/ Redirect302 \/ Redirect303 \/ Redirect307
    \/ logError \/ FormatError \/ FormatContent
    \/ SetContentType \/ SetContentLength \/ SendWriteHeader \/ SendWrite
    \/ Return

Spec == Init /\ [][Next]_vars

----------------------------------------------------------------------------
(* Concurrent sends on one responder *)

\* Each thread has its own response writer and its own locals; the responder, the
\* logger behind it and the heap are shared.  A step of a thread is one call of the
\* send operation it runs: logError, the error formatter, the content formatter,
\* the header and status calls on its own writer, and the write with its log entry.

Threads == 1..MaxThreads

\* the caller's []byte, at address 1 of the heap, that any thread may send
SharedSlice == <<97, 34>>

\* the option lists of the responders that are shared
SharedOptionLists ==
    { <<>>,
      <<WithLogger("logger"), WithErrorFormatter("customFormatter")>> }

\* what the threads send
ThreadValues == {BytesValue(1), StringValue(<<97>>)}
ThreadMessages == {StringValue(<<34>>)}

\* a thread that has not entered an operation
NoThread ==
    [pc |-> "idle", op |-> NoOp, formatted |-> NilValue, content |-> 0, rw |-> NewWriter]

\* the responder was built by New and handed to every thread
InitConcurrent ==
    /\ pc = "concurrent"
    /\ ctor = "New"
    /\ opts \in SharedOptionLists
    /\ ctype = TextContentType
    /\ resp = New(ctype, opts)
    /\ op = NoOp
    /\ formatted = NilValue
    /\ content = 0
    /\ heap = <<SharedSlice>>
    /\ rw = NewWriter
    /\ log = <<>>
    /\ efCalls = <<>>
    /\ cfCalls = <<>>
    /\ used = <<>>
    /\ threads = [t \in Threads |-> NoThread]

\* thread t enters a success-family operation
ThreadSendSuccess(t, name, code, c) ==
    /\ threads[t].pc = "idle"
    /\ threads' = [threads EXCEPT ![t].pc = "contentFormatter",
                                  ![t].op = [name |-> name, code |-> code, arg |-> c,
                                             cause |-> "nil", given |-> NoOutcome],
                                  ![t].formatted = c]
    /\ UNCHANGED <<pc, ctor, opts, ctype, resp, op, formatted, content, heap, rw, log,
                   efCalls, cfCalls, used>>

ThreadSend200 ==
    /\ resp # NoResponder
    /\ \E t \in Threads, c \in ThreadValues : ThreadSendSuccess(t, "Send200", status200, c)

ThreadSend204 ==
    /\ resp # NoResponder
    /\ \E t \in Threads : ThreadSendSuccess(t, "Send204", status204, NilValue)

\* thread t enters Send404
ThreadSend404 ==
    \E t \in Threads :
        /\ threads[t].pc = "idle"
        /\ \E e \in Causes, m \in ThreadMessages :
                threads' = [threads EXCEPT ![t].pc = "logError",
                                          ![t].op = [name |-> "Send404", code |-> status404,
                                                     arg |-> m, cause |-> e,
                                                     given |-> NoOutcome]]
        /\ UNCHANGED <<pc, ctor, opts, ctype, resp, op, formatted, content, heap, rw, log,
                       efCalls, cfCalls, used>>

\* r.logError(err, code, message) in a thread: the logger is the shared one
ThreadLogError ==
    \E t \in Threads :
        /\ threads[t].pc = "logError"
        /\ LET o == threads[t].op
               m == MessageToString(o.arg)
           IN  IF o.cause = "nil" \/ resp.options.logger = "nil"
               THEN /\ threads' = [threads EXCEPT ![t].pc = "errorFormatter"]
                    /\ log' = log
               ELSE IF m.panics
               THEN /\ threads' = [threads EXCEPT ![t].pc = "panicked"]
                    /\ log' = log
               ELSE /\ threads' = [threads EXCEPT ![t].pc = "errorFormatter"]
                    /\ log' = Append(log, LogEntry(m.s, o.code, o.cause))
        /\ UNCHANGED <<pc, ctor, opts, ctype, resp, op, formatted, content, heap, rw,
                       efCalls, cfCalls, used>>

\* r.options.errorFormatter(message) in a thread
ThreadFormatError ==
    \E t \in Threads :
        /\ threads[t].pc = "errorFormatter"
        /\ IF resp.options.errorFormatter = "nil"
           THEN threads' = [threads EXCEPT ![t].pc = "panicked"]
           ELSE LET r == callErrorFormatter(resp.options.errorFormatter, threads[t].op.arg)
                IN  threads' = [threads EXCEPT ![t].formatted = r.v,
                                              ![t].pc = IF r.panics THEN "panicked"
                                                        ELSE "contentFormatter"]
        /\ UNCHANGED <<pc, ctor, opts, ctype, resp, op, formatted, content, heap, rw, log,
                       efCalls, cfCalls, used>>

\* the content formatter of a thread writing its result into one buffer that the
\* responder keeps, at address 2, instead of a slice of its own
ThreadFormatContent_SharedBuffer ==
    \E t \in Threads :
        /\ threads[t].pc = "contentFormatter"
        /\ IF resp.options.contentFormatter = "nil"
           THEN /\ threads' = [threads EXCEPT ![t].pc = "panicked"]
                /\ heap' = heap
           ELSE LET r == callContentFormatter(resp.options.contentFormatter,
                                              threads[t].formatted, heap)
                IN  /\ heap' = IF Len(heap) >= 2
                               THEN [heap EXCEPT ![2] = r.heap[r.ref]]
                               ELSE Append(heap, r.heap[r.ref])
                    /\ threads' = [threads EXCEPT ![t].content = 2,
                                                  ![t].pc = IF r.panics THEN "panicked"
                                                            ELSE "send"]
        /\ UNCHANGED <<pc, ctor, opts, ctype, resp, op, formatted, content, rw, log,
                       efCalls, cfCalls, used>>

\* r.options.contentFormatter(...) in a thread: the slice it returns is the
\* caller's or a new one
ThreadFormatContent ==
    \E t \in Threads :
        /\ threads[t].pc = "contentFormatter"
        /\ IF resp.options.contentFormatter = "nil"
           THEN /\ threads' = [threads EXCEPT ![t].pc = "panicked"]
                /\ heap' = heap
           ELSE LET r == callContentFormatter(resp.options.contentFormatter,
                                              threads[t].formatted, heap)
                IN  /\ heap' = r.heap
                    /\ threads' = [threads EXCEPT ![t].content = r.ref,
                                                  ![t].pc = IF r.panics THEN "panicked"
                                                            ELSE "send"]
        /\ UNCHANGED <<pc, ctor, opts, ctype, resp, op, formatted, content, rw, log,
                       efCalls, cfCalls, used>>

\* send in a thread, up to the status: the two headers and WriteHeader on the
\* thread's own writer
ThreadSendHeaders ==
    \E t \in Threads :
        /\ threads[t].pc = "send"
        /\ threads' =
                [threads EXCEPT
                    ![t].rw = WriteHeader(
                                  HeaderSet(HeaderSet(@, "Content-Type", resp.contentType),
                                            "Content-Length",
                                            Sprintf_d(Len(heap[threads[t].content]))),
                                  threads[t].op.code),
                    ![t].pc = "write"]
        /\ UNCHANGED <<pc, ctor, opts, ctype, resp, op, formatted, content, heap, rw, log,
                       efCalls, cfCalls, used>>

\* send in a thread: rw.Write(content) on the thread's own writer, and the entry
\* in the shared log if it failed
ThreadSendWrite ==
    \E t \in Threads :
        /\ threads[t].pc = "write"
        /\ LET b == heap[threads[t].content]
           IN  \/ /\ threads' = [threads EXCEPT ![t].rw = Write(@, b, Len(b), FALSE),
                                                 ![t].pc = "done"]
                  /\ log' = log
               \/ \E n \in Written(b) :
                    /\ threads' = [threads EXCEPT ![t].rw = Write(@, b, n, TRUE),
                                                  ![t].pc = "done"]
                    /\ log' = IF resp.options.logger = "nil" THEN log
                              ELSE Append(log, LogEntry(FailedToWrite, threads[t].op.code,
                                                        "write error"))
        /\ UNCHANGED <<pc, ctor, opts, ctype, resp, op, formatted, content, heap, rw,
                       efCalls, cfCalls, used>>

NextConcurrent ==
    \/ ThreadSend200 \/ ThreadSend204 \/ ThreadSend404
    \/ ThreadLogError \/ ThreadFormatError \/ ThreadFormatContent
    \/ ThreadSendHeaders \/ ThreadSendWrite

SpecConcurrent == InitConcurrent /\ [][NextConcurrent]_vars

----------------------------------------------------------------------------
(* Properties *)

ErrorFamily == {"Send400", "Send401", "Send403", "Send404", "Send500"}
SuccessFamily == {"Send200", "Send201", "Send202"}
RedirectFamily == {"Redirect301", "Redirect302", "Redirect303", "Redirect307"}

\* the default content formatter was the last formatter called, on `formatted`,
\* and the slice it returned has not been written to since
DefaultFormatterCalled ==
    /\ cfCalls # <<>>
    /\ cfCalls[Len(cfCalls)] = <<"contentFormatter", formatted>>
    /\ pc # "mutated"

\* the bytes the content formatter returned
Result == heap[content]

\* the marshaling routine of a capability, what it returns and how it fails
RoutineOf(cap) ==
    CASE cap = "xml" -> "xml.Marshal" [] cap = "json" -> "MarshalJSON"
      [] cap = "text" -> "MarshalText" [] cap = "generic" -> "json.Marshal"
ErrorOf(cap, v) ==
    CASE cap = "xml" -> XMLError [] cap = "json" -> JSONError [] cap = "text" -> TextError
      [] cap = "generic" -> IF v.shape = "chan" THEN UnsupportedChan ELSE UnsupportedFunc
BytesOf(cap) ==
    CASE cap = "xml" -> XMLBytes [] cap = "json" -> JSONBytes [] cap = "text" -> TextBytes
FailsOn(cap, v) ==
    IF cap = "generic" THEN v.shape \in {"chan", "func"} ELSE cap \in v.fails

\* the first capability the value has, in the order XML, JSON, text, generic
FirstCapability(v) ==
    IF "xml" \in v.caps THEN "xml"
    ELSE IF "json" \in v.caps THEN "json"
    ELSE IF "text" \in v.caps THEN "text"
    ELSE "generic"

\* C1: a value that is neither nil, a string nor a []byte is formatted by exactly
\* the first capability it has in the order XML, JSON, text, generic JSON
\* serialization: that routine alone is called, and what it returns is the result.
C1_PriorityOrder ==
    (DefaultFormatterCalled /\ formatted.k = "obj") =>
        LET cap == FirstCapability(formatted)
        IN  /\ used = <<RoutineOf(cap)>>
            /\ (~formatted.nilptr /\ cap # "generic" /\ ~FailsOn(cap, formatted))
                    => (pc # "panicked" /\ Result = BytesOf(cap))

\* C1 witness: a value with the JSON and the text capability went through MarshalJSON
C1_Witness ==
    /\ DefaultFormatterCalled /\ pc = "returned"
    /\ formatted.caps = {"json", "text"} /\ formatted.fails = {}
    /\ used = <<"MarshalJSON">> /\ Result = JSONBytes

\* C1 witness: a value with the XML and the JSON capability went through xml.Marshal
C1_WitnessXML ==
    /\ DefaultFormatterCalled /\ pc = "returned"
    /\ formatted.caps = {"xml", "json"} /\ formatted.fails = {}
    /\ used = <<"xml.Marshal">> /\ Result = XMLBytes

\* the status each operation is documented to send
StatusOf(name) ==
    CASE name = "Send200" -> 200 [] name = "Send201" -> 201 [] name = "Send202" -> 202
      [] name = "Send204" -> 204 [] name = "Send400" -> 400 [] name = "Send401" -> 401
      [] name = "Send403" -> 403 [] name = "Send404" -> 404 [] name = "Send500" -> 500

\* contentFormatter(errorFormatter(message)) for the configured formatters
ErrorBody ==
    LET r == callContentFormatter(resp.options.contentFormatter,
                                  callErrorFormatter(resp.options.errorFormatter, op.arg).v, <<>>)
    IN  r.heap[r.ref]

\* MessageToString(m) where it returns
toText(m) == MessageToString(m).s

LastCall == rw.calls[Len(rw.calls)]

\* C2: an error-family operation writes its fixed status and the body
\* contentFormatter(errorFormatter(message)), whatever the cause and the logger.
C2_ErrorBody ==
    (pc = "done" /\ op.name \in ErrorFamily) =>
        /\ rw.code = StatusOf(op.name)
        /\ LastCall.call = "Write" /\ LastCall.bytes = ErrorBody
        /\ (~rw.failed => rw.body = ErrorBody)

\* C2 witness: Send404 with a nil cause and no logger wrote 404 and the formatted message
C2_Witness ==
    /\ pc = "done" /\ op.name = "Send404" /\ op.cause = "nil"
    /\ resp.options.logger = "nil" /\ resp.options.errorFormatter = "customFormatter"
    /\ op.arg = StringValue(<<97>>)
    /\ rw.code = 404 /\ rw.body = <<69, 82, 82, 79, 82, 58, 32, 97>>

\* the log entries that report a cause
CauseEntries == SelectSeq(log, LAMBDA e : e.error # "write error")

\* the entry logError writes for the running operation
CauseEntry ==
    [level |-> "ERROR", msg |-> toText(op.arg), status |-> StatusOf(op.name), error |-> op.cause]

\* C3: an error-family operation logs its cause if and only if the cause is not nil
\* and a logger is configured: one entry at error level with the operation's status,
\* the cause, and MessageToString of the original message as text.  Without a logger
\* nothing is ever logged.  (An operation that stopped in a panic has logged that
\* entry or nothing.)
C3_CauseLogged ==
    /\ resp.options.logger = "nil" => log = <<>>
    /\ op.name \in SuccessFamily \cup {"Send204", "none"} => CauseEntries = <<>>
    /\ (op.name \in ErrorFamily /\ pc \notin {"logError", "panicked"}) =>
            CauseEntries =
                IF op.cause # "nil" /\ resp.options.logger # "nil"
                THEN <<CauseEntry>>
                ELSE <<>>
    /\ (op.name \in ErrorFamily /\ pc = "panicked") =>
            /\ CauseEntries \in {<<>>, <<CauseEntry>>}
            /\ op.cause = "nil" => CauseEntries = <<>>

\* C3 witness: with a custom error formatter the entry carries the original message
C3_Witness ==
    /\ pc = "done" /\ op.name = "Send500" /\ op.cause = "cause"
    /\ resp.options.errorFormatter = "customFormatter"
    /\ op.arg = StringValue(<<97>>) /\ formatted.s # <<97>>
    /\ Len(log) >= 1 /\ log[1].msg = <<97>> /\ log[1].status = 500 /\ log[1].error = "cause"

\* C4: a responder built by JSONResponder has the JSON error formatter whatever
\* options the caller passed, and no other error formatter is ever called on it.
C4_JSONFormatterWins ==
    ctor = "JSONResponder" =>
        /\ resp.options.errorFormatter = "jsonFormatter"
        /\ \A i \in DOMAIN efCalls : efCalls[i][1] = "jsonFormatter"
        /\ (op.name \in ErrorFamily /\ pc \notin {"logError", "errorFormatter", "panicked"})
                => formatted = JSONErrorValue(toText(op.arg))

\* C4 witness: the caller's last option was its own error formatter
C4_Witness ==
    /\ pc = "constructed" /\ ctor = "JSONResponder"
    /\ Len(opts) = MaxOpts
    /\ opts[Len(opts)] = WithErrorFormatter("customFormatter")
    /\ resp.options.errorFormatter = "jsonFormatter"

\* C5: when the marshaling routine of the first capability fails with an error, the
\* result is "received invalid content - " followed by the error text, and no
\* other routine is tried.
C5_InvalidContent ==
    (DefaultFormatterCalled /\ formatted.k = "obj"
        /\ FailsOn(FirstCapability(formatted), formatted)) =>
        LET cap == FirstCapability(formatted)
        IN  /\ pc # "panicked"
            /\ used = <<RoutineOf(cap)>>
            /\ Result = InvalidContentPrefix \o ErrorOf(cap, formatted)

\* C5 witness: MarshalXML failed on a value whose MarshalJSON would have succeeded
C5_Witness ==
    /\ DefaultFormatterCalled /\ pc = "returned"
    /\ formatted.caps = {"xml", "json", "text"} /\ formatted.fails = {"xml"}
    /\ SubSeq(Result, 1, 27) = InvalidContentPrefix
    /\ SubSeq(Result, 28, Len(Result)) = XMLError

\* C6: the content formatter returns a byte sequence for every input and never
\* panics.
C6_Total ==
    DefaultFormatterCalled => (pc # "panicked" /\ content \in DOMAIN heap)

\* C7: given a []byte the content formatter returns that very slice: nothing is
\* allocated, and a write through the result is seen through the argument.
C7_SameSlice ==
    (cfCalls # <<>> /\ cfCalls[Len(cfCalls)] = <<"contentFormatter", formatted>>
        /\ formatted.k = "bytes") =>
        /\ pc # "panicked"
        /\ content = formatted.ref
        /\ Len(heap) = 1
        /\ used = <<>>
        /\ pc = "mutated" => heap[formatted.ref][1] = 88

\* C7 witness: the caller wrote 'X' through the result and reads it in its own slice
C7_Witness ==
    /\ pc = "mutated" /\ formatted.k = "bytes"
    /\ content = formatted.ref /\ heap[formatted.ref] = <<88, 34>>

\* C8: nil gives the empty byte sequence and a string gives exactly its bytes,
\* with no marshaling routine called.
C8_NilAndString ==
    (DefaultFormatterCalled /\ formatted.k \in {"nil", "string"}) =>
        /\ pc # "panicked"
        /\ used = <<>>
        /\ Result = IF formatted.k = "nil" THEN <<>> ELSE formatted.s

\* C8 witness: a string holding a double quote came back unquoted and unescaped
C8_Witness ==
    /\ DefaultFormatterCalled /\ pc = "returned"
    /\ formatted = StringValue(<<34, 97>>) /\ Result = <<34, 97>>

\* the content type each preset is documented to fix
PresetContentType(c) ==
    CASE c = "JSONResponder" -> "application/json; charset=utf-8"
      [] c = "TextResponder" -> "text/plain; charset=utf-8"
      [] c = "HTMLResponder" -> "text/html; charset=utf-8"
      [] c = "CSVResponder" -> "text/csv; charset=utf-8"
      [] c = "XMLResponder" -> "application/xml; charset=utf-8"

\* C9: a completed send operation has set Content-Type to the responder's content
\* type (the preset's constant for a preset) and Content-Length to the decimal count
\* of the bytes it handed to Write.
C9_Headers ==
    /\ (ctor \notin {"none", "New"}) => resp.contentType = PresetContentType(ctor)
    /\ pc = "done" =>
            /\ rw.header["Content-Type"] = resp.contentType
            /\ LastCall.call = "Write"
            /\ rw.header["Content-Length"] = Sprintf_d(Len(LastCall.bytes))
            /\ (~rw.failed => Len(rw.body) = Len(LastCall.bytes))

\* C9 witness: a body of 59 bytes went out with Content-Length "59" on a CSV responder
C9_Witness ==
    /\ pc = "done" /\ ctor = "CSVResponder" /\ ~rw.failed
    /\ rw.header["Content-Type"] = "text/csv; charset=utf-8"
    /\ Len(rw.body) = 59 /\ rw.header["Content-Length"] = "59"

\* the calls a send operation makes on the response writer, in order
SendCalls ==
    << <<"Header.Set", "Content-Type">>, <<"Header.Set", "Content-Length">>,
       <<"WriteHeader", "">>, <<"Write", "">> >>

\* C10: a send operation drives the writer in the order Content-Type,
\* Content-Length, status, body, each exactly once.
C10_SendOrder ==
    op.name \notin RedirectFamily =>
        /\ Len(rw.calls) <= Len(SendCalls)
        /\ \A i \in DOMAIN rw.calls : <<rw.calls[i].call, rw.calls[i].name>> = SendCalls[i]
        /\ pc = "done" => Len(rw.calls) = Len(SendCalls)
        /\ rw.code # 0 => (rw.header["Content-Type"] # "" /\ rw.header["Content-Length"] # "")
        /\ rw.body # <<>> => rw.code # 0

\* C10 witness: Send204 has made its four calls
C10_Witness ==
    /\ pc = "done" /\ op.name = "Send204" /\ Len(rw.calls) = 4
    /\ rw.calls[3].code = 204 /\ rw.calls[4].call = "Write"

\* the log entries that report a failed write, and the Write calls the sink received
WriteEntries == SelectSeq(log, LAMBDA e : e.error = "write error")
WriteCalls == SelectSeq(rw.calls, LAMBDA c : c.call = "Write")

\* C11: when the write of the body fails the operation still reaches its return,
\* Write has been called once and not again, and the failure shows only as one
\* error-level log entry "failed to write response" with the status and the error
\* when a logger is configured, and nowhere when there is none.
C11_WriteFailure ==
    /\ Len(WriteCalls) <= 1
    /\ rw.failed => (pc = "done" /\ Len(WriteCalls) = 1)
    /\ WriteEntries =
            IF rw.failed /\ resp.options.logger # "nil"
            THEN <<[level |-> "ERROR", msg |-> FailedToWrite,
                    status |-> op.code, error |-> "write error"]>>
            ELSE <<>>
    /\ (rw.failed /\ resp.options.logger = "nil") => log = <<>>

\* C11 witness: a write that failed after part of the body, with a logger
C11_Witness ==
    /\ pc = "done" /\ rw.failed /\ resp.options.logger = "logger"
    /\ op.name = "Send200" /\ Len(rw.body) = 1 /\ Len(LastCall.bytes) = 2
    /\ Len(log) = 1 /\ log[1].msg = FailedToWrite /\ log[1].status = 200

\* C11 witness: a write that failed without a logger left no trace
C11_WitnessNoLogger ==
    /\ pc = "done" /\ rw.failed /\ resp.options.logger = "nil"
    /\ op.name = "Send500" /\ op.cause = "cause" /\ log = <<>>

\* contentFormatter(value) for the configured content formatter and the operation's
\* argument (a []byte argument is the caller's slice, at address 1)
SuccessBody ==
    LET h == IF op.arg.k = "bytes" THEN <<heap[1]>> ELSE <<>>
        r == callContentFormatter(resp.options.contentFormatter, op.arg, h)
    IN  r.heap[r.ref]

\* C12: Send200, Send201 and Send202 write their fixed status and the body
\* contentFormatter(value); they never call the error formatter, and they log
\* nothing unless the write fails.
C12_SuccessBody ==
    op.name \in SuccessFamily =>
        /\ efCalls = <<>>
        /\ log # <<>> => rw.failed
        /\ formatted = op.arg
        /\ pc = "done" =>
                /\ rw.code = StatusOf(op.name)
                /\ LastCall.call = "Write" /\ LastCall.bytes = SuccessBody
                /\ (~rw.failed => rw.body = SuccessBody)

\* C12 witness: Send200 of a string on a text pipeline with a logger wrote 200 and
\* the bytes of the string, and logged nothing
C12_Witness ==
    /\ pc = "done" /\ op.name = "Send200" /\ ctor = "TextResponder"
    /\ resp.options.logger = "logger" /\ resp.options.contentFormatter = "contentFormatter"
    /\ op.arg = StringValue(<<97, 34>>)
    /\ rw.code = 200 /\ rw.body = <<97, 34>> /\ log = <<>> /\ efCalls = <<>>

----------------------------------------------------------------------------
(* A client reading a JSON body *)

\* the value of a hexadecimal digit, or -1
HexVal(c) ==
    IF c >= 48 /\ c <= 57 THEN c - 48
    ELSE IF c >= 97 /\ c <= 102 THEN c - 87
    ELSE IF c >= 65 /\ c <= 70 THEN c - 55
    ELSE -1

\* the UTF-8 encoding of a code point of the basic plane
UTF8(cp) ==
    IF cp < 128 THEN <<cp>>
    ELSE IF cp < 2048 THEN <<192 + (cp \div 64), 128 + (cp % 64)>>
    ELSE <<224 + (cp \div 4096), 128 + ((cp \div 64) % 64), 128 + (cp % 64)>>

ParseFailed == [ok |-> FALSE, s |-> <<>>, rest |-> <<>>]

\* the string literal whose bytes after the opening quote are b: its text (acc so
\* far) and the bytes that follow the closing quote
RECURSIVE JSONUnquote(_, _)
JSONUnquote(b, acc) ==
    IF b = <<>> THEN ParseFailed
    ELSE IF b[1] = 34 THEN [ok |-> TRUE, s |-> acc, rest |-> Tail(b)]
    ELSE IF b[1] = 92 THEN
        IF Len(b) >= 2 /\ b[2] \in {34, 92, 47}
            THEN JSONUnquote(SubSeq(b, 3, Len(b)), Append(acc, b[2]))
        ELSE IF Len(b) >= 6 /\ b[2] = 117 /\ \A i \in 3..6 : HexVal(b[i]) >= 0
            THEN JSONUnquote(SubSeq(b, 7, Len(b)),
                             acc \o UTF8(4096 * HexVal(b[3]) + 256 * HexVal(b[4])
                                         + 16 * HexVal(b[5]) + HexVal(b[6])))
        ELSE ParseFailed
    ELSE IF b[1] < 32 THEN ParseFailed
    ELSE JSONUnquote(Tail(b), Append(acc, b[1]))

\* the body read as an object with the single field "error" holding a string
ParseErrorObject(b) ==
    LET key == <<123, 34, 101, 114, 114, 111, 114, 34, 58, 34>>      \* {"error":"
    IN  IF Len(b) > Len(key) /\ SubSeq(b, 1, Len(key)) = key
        THEN LET r == JSONUnquote(SubSeq(b, Len(key) + 1, Len(b)), <<>>)
             IN  [ok |-> r.ok /\ r.rest = <<125>>, error |-> r.s]
        ELSE [ok |-> FALSE, error |-> <<>>]

\* the text with each byte that is not valid UTF-8 replaced by U+FFFD
RECURSIVE ToValidUTF8(_)
ToValidUTF8(s) ==
    IF s = <<>> THEN <<>>
    ELSE (IF Head(s) >= 248 THEN <<239, 191, 189>> ELSE <<Head(s)>>) \o ToValidUTF8(Tail(s))

\* a completed error-family operation on a JSON preset with the default content formatter
JSONErrorSent ==
    /\ pc = "done" /\ op.name \in ErrorFamily
    /\ ctor = "JSONResponder" /\ resp.options.contentFormatter = "contentFormatter"

\* C13 as stated: on a JSONResponder pipeline with the default content formatter an
\* error-family send writes its status, the JSON content type, and a body that
\* parses as an object whose only field is error = MessageToString(message).
C13_JSONErrorExact ==
    JSONErrorSent =>
        /\ rw.code = StatusOf(op.name)
        /\ rw.header["Content-Type"] = "application/json; charset=utf-8"
        /\ ParseErrorObject(LastCall.bytes).ok
        /\ ParseErrorObject(LastCall.bytes).error = toText(op.arg)

\* C13 amended: the same, the field error being MessageToString(message) with each
\* byte that is not valid UTF-8 replaced by U+FFFD (so the text itself when it is
\* valid UTF-8).
C13_JSONError ==
    JSONErrorSent =>
        /\ rw.code = StatusOf(op.name)
        /\ rw.header["Content-Type"] = "application/json; charset=utf-8"
        /\ ParseErrorObject(LastCall.bytes).ok
        /\ ParseErrorObject(LastCall.bytes).error = ToValidUTF8(toText(op.arg))
        /\ (~rw.failed => rw.body = LastCall.bytes)

\* C13 witness: Send404 of a message holding a double quote; the body is
\* {"error":"a\""} and reads back as the message
C13_Witness ==
    /\ JSONErrorSent /\ op.name = "Send404" /\ op.cause = "cause" /\ ~rw.failed
    /\ op.arg = StringValue(<<97, 34>>)
    /\ rw.code = 404
    /\ rw.body = <<123, 34, 101, 114, 114, 111, 114, 34, 58, 34, 97, 92, 34, 34, 125>>
    /\ ParseErrorObject(rw.body).error = <<97, 34>>

\* C13 witness: a map as message gives the placeholder text
C13_WitnessMap ==
    /\ JSONErrorSent /\ op.arg = Plain("map") /\ ~rw.failed
    /\ ParseErrorObject(rw.body).error = GenericErrorMessage

\* the constructors that leave the error formatter to the caller
PlainConstructors ==
    {"New", "TextResponder", "HTMLResponder", "CSVResponder", "XMLResponder"}

\* C14: a pipeline built by New or by the Text, HTML, CSV or XML preset without a
\* WithErrorFormatter option has MessageToString as its error formatter: an
\* error-family send with the default content formatter hands Write exactly the
\* bytes of MessageToString(message), for a string the bytes of the string.
C14_DefaultErrorFormatter ==
    /\ (pc = "constructed" /\ ctor \in PlainConstructors
            /\ \A i \in DOMAIN opts : opts[i].field # "errorFormatter")
            => resp.options.errorFormatter = "stringFormatter"
    /\ (ctor \in PlainConstructors /\ resp.options.errorFormatter = "stringFormatter"
            /\ resp.options.contentFormatter = "contentFormatter"
            /\ op.name \in ErrorFamily /\ pc = "done")
            => /\ efCalls = << <<"stringFormatter", op.arg>> >>
               /\ formatted = StringValue(toText(op.arg))
               /\ LastCall.call = "Write" /\ LastCall.bytes = toText(op.arg)
               /\ (op.arg.k = "string" => LastCall.bytes = op.arg.s)
               /\ (~rw.failed => rw.body = toText(op.arg))

\* C14 witness: Send400 of an error value on a pipeline built by New wrote Error()
C14_Witness ==
    /\ pc = "done" /\ ctor = "New" /\ op.name = "Send400" /\ ~rw.failed
    /\ resp.options.errorFormatter = "stringFormatter"
    /\ resp.options.contentFormatter = "contentFormatter"
    /\ op.arg = Displayable({"error"}) /\ rw.body = ErrorText

\* C14 witness: an XML preset built with options, none of them an error formatter
C14_WitnessPreset ==
    /\ pc = "constructed" /\ ctor = "XMLResponder" /\ Len(opts) = MaxOpts
    /\ \A i \in DOMAIN opts : opts[i].field # "errorFormatter"
    /\ resp.options.errorFormatter = "stringFormatter"

\* C15: MessageToString returns for every input: the string itself for a string,
\* the result of String() for a value that has it, the result of Error() for an
\* error value, and "an error occurred" for every other value; it never panics.
C15_Total ==
    used = <<"MessageToString">> =>
        /\ pc # "panicked"
        /\ Result = IF formatted.k = "string" THEN formatted.s
                    ELSE IF "stringer" \in formatted.caps THEN StringerText
                    ELSE IF "error" \in formatted.caps THEN ErrorText
                    ELSE GenericErrorMessage

\* C16 as stated: Send204 writes status 204 and an empty body, with Content-Length
\* 0, on every pipeline.
C16_AlwaysEmpty ==
    (pc = "done" /\ op.name = "Send204") =>
        /\ rw.code = 204
        /\ LastCall.call = "Write" /\ LastCall.bytes = <<>>
        /\ rw.body = <<>>
        /\ rw.header["Content-Length"] = "0"

\* C16 amended: Send204 on a pipeline with the default content formatter writes
\* status 204 and an empty body, with Content-Length 0, whatever the content type.
C16_NoContent ==
    (pc = "done" /\ op.name = "Send204"
        /\ resp.options.contentFormatter = "contentFormatter") =>
        /\ rw.code = 204
        /\ cfCalls = << <<"contentFormatter", NilValue>> >>
        /\ LastCall.call = "Write" /\ LastCall.bytes = <<>>
        /\ rw.body = <<>>
        /\ rw.header["Content-Length"] = "0"
        /\ rw.header["Content-Type"] = resp.contentType

\* C16 witness: Send204 on a JSON pipeline: 204, no byte, Content-Length 0
C16_Witness ==
    /\ pc = "done" /\ op.name = "Send204" /\ ctor = "JSONResponder"
    /\ resp.options.contentFormatter = "contentFormatter"
    /\ rw.code = 204 /\ rw.body = <<>> /\ rw.header["Content-Length"] = "0"
    /\ rw.header["Content-Type"] = "application/json; charset=utf-8"

\* the value the last option naming the field gave it, or the default
LastOverride(field, default) ==
    LET given == SelectSeq(opts, LAMBDA m : m.field = field)
    IN  IF given = <<>> THEN default ELSE given[Len(given)].value

\* C17: the responder New returns has the content type it was given and, for each
\* of logger, content formatter and error formatter, the value of the last option
\* that names the field, or the default (no logger, contentFormatter,
\* stringFormatter) when no option names it.
C17_LastOverrideWins ==
    pc = "constructed" =>
        /\ resp.contentType = ctype
        /\ resp.options.logger = LastOverride("logger", "nil")
        /\ resp.options.contentFormatter = LastOverride("contentFormatter", "contentFormatter")
        /\ ctor \in PlainConstructors =>
                resp.options.errorFormatter = LastOverride("errorFormatter", "stringFormatter")

\* C17 witness: two error formatter options, the second one kept; the fields no
\* option names have their defaults
C17_Witness ==
    /\ pc = "constructed" /\ ctor = "New" /\ ctype = "application/octet-stream"
    /\ opts = <<WithErrorFormatter("nil"), WithErrorFormatter("customFormatter")>>
    /\ resp.contentType = "application/octet-stream"
    /\ resp.options = [logger |-> "nil", errorFormatter |-> "customFormatter",
                       contentFormatter |-> "contentFormatter"]

\* C18: no send operation raises to its caller: a failure of the serialization or of
\* the write ends as a placeholder body or as a log entry, and the operation
\* completes.
C18_NoRaise ==
    op.name # "none" => pc # "panicked"

\* b starts with the bytes lit
StartsWith(b, lit) == Len(b) >= Len(lit) /\ SubSeq(b, 1, Len(lit)) = lit

NoParse == [ok |-> FALSE, rest |-> <<>>]
Parsed(rest) == [ok |-> TRUE, rest |-> rest]

\* b without its leading digits
RECURSIVE JSONDigits(_)
JSONDigits(b) ==
    IF b # <<>> /\ b[1] >= 48 /\ b[1] <= 57 THEN JSONDigits(Tail(b)) ELSE b

\* a reader of compact JSON text: one value at the head of b, and what follows it
RECURSIVE JSONValue(_)
RECURSIVE JSONMembers(_)
RECURSIVE JSONElements(_)
JSONValue(b) ==
    IF b = <<>> THEN NoParse
    ELSE IF b[1] = 34 THEN
        LET r == JSONUnquote(Tail(b), <<>>) IN IF r.ok THEN Parsed(r.rest) ELSE NoParse
    ELSE IF b[1] >= 48 /\ b[1] <= 57 THEN Parsed(JSONDigits(b))
    ELSE IF StartsWith(b, <<110, 117, 108, 108>>) THEN Parsed(SubSeq(b, 5, Len(b)))         \* null
    ELSE IF StartsWith(b, <<116, 114, 117, 101>>) THEN Parsed(SubSeq(b, 5, Len(b)))         \* true
    ELSE IF StartsWith(b, <<102, 97, 108, 115, 101>>) THEN Parsed(SubSeq(b, 6, Len(b)))     \* false
    ELSE IF StartsWith(b, <<123, 125>>) THEN Parsed(SubSeq(b, 3, Len(b)))                   \* {}
    ELSE IF b[1] = 123 THEN JSONMembers(Tail(b))
    ELSE IF StartsWith(b, <<91, 93>>) THEN Parsed(SubSeq(b, 3, Len(b)))                     \* []
    ELSE IF b[1] = 91 THEN JSONElements(Tail(b))
    ELSE NoParse

\* "key":value followed by , and more members, or by }
JSONMembers(b) ==
    IF b # <<>> /\ b[1] = 34 THEN
        LET k == JSONUnquote(Tail(b), <<>>)
        IN  IF k.ok /\ k.rest # <<>> /\ k.rest[1] = 58 THEN
                LET v == JSONValue(Tail(k.rest))
                IN  IF v.ok /\ v.rest # <<>> /\ v.rest[1] = 125 THEN Parsed(Tail(v.rest))
                    ELSE IF v.ok /\ v.rest # <<>> /\ v.rest[1] = 44 THEN JSONMembers(Tail(v.rest))
                    ELSE NoParse
            ELSE NoParse
    ELSE NoParse

\* value followed by , and more elements, or by ]
JSONElements(b) ==
    LET v == JSONValue(b)
    IN  IF v.ok /\ v.rest # <<>> /\ v.rest[1] = 93 THEN Parsed(Tail(v.rest))
        ELSE IF v.ok /\ v.rest # <<>> /\ v.rest[1] = 44 THEN JSONElements(Tail(v.rest))
        ELSE NoParse

\* the bytes are one JSON value and nothing else
IsJSON(b) == JSONValue(b).ok /\ JSONValue(b).rest = <<>>

\* C19: on a pipeline whose content type is JSON, with the default content
\* formatter, the body written when the serialization of the value fails is
\* well-formed JSON.
C19_WellFormedOnFailure ==
    (pc = "done" /\ resp.contentType = JSONContentType
        /\ resp.options.contentFormatter = "contentFormatter"
        /\ formatted.k = "obj" /\ FailsOn(FirstCapability(formatted), formatted))
        => IsJSON(LastCall.bytes)

\* the writer after send(code, body) of which n bytes got through
Sent(code, body, n, fails) ==
    Write(WriteHeader(HeaderSet(HeaderSet(NewWriter, "Content-Type", resp.contentType),
                                "Content-Length", Sprintf_d(Len(body))),
                      code),
          body, n, fails)

\* the entry send writes when the write failed and there is a logger
WriteLog(code) ==
    IF rw.failed /\ resp.options.logger # "nil"
    THEN <<LogEntry(FailedToWrite, code, "write error")>> ELSE <<>>

\* the writer, the log and the formatter calls are those of an error-family send
\* with this status, cause and message
AsErrorFamily(code, err, message) ==
    LET f == callErrorFormatter(resp.options.errorFormatter, message).v
        r == callContentFormatter(resp.options.contentFormatter, f, <<>>)
    IN  /\ rw = Sent(code, r.heap[r.ref], Len(rw.body), rw.failed)
        /\ log = (IF err # "nil" /\ resp.options.logger # "nil"
                  THEN <<LogEntry(toText(message), code, err)>> ELSE <<>>) \o WriteLog(code)
        /\ efCalls = << <<resp.options.errorFormatter, message>> >>
        /\ cfCalls = << <<resp.options.contentFormatter, f>> >>

\* the writer, the log and the formatter calls are those of a success-family send
\* with this status and value
AsSuccessFamily(code, value) ==
    LET h == IF value.k = "bytes" THEN <<heap[1]>> ELSE <<>>
        r == callContentFormatter(resp.options.contentFormatter, value, h)
    IN  /\ rw = Sent(code, r.heap[r.ref], Len(rw.body), rw.failed)
        /\ log = WriteLog(code)
        /\ efCalls = <<>>
        /\ cfCalls = << <<resp.options.contentFormatter, value>> >>

\* C20: Send(outcome) uses the status of the outcome and, for an Error outcome,
\* logs and writes what an error-family send with that status, message and cause
\* does, and for a Success outcome writes what a success-family send with that
\* status and body does: the writer, the log and the formatter calls at the end
\* are the same function of the arguments for Send and for the fixed operations.
C20_SendDispatch ==
    pc = "done" =>
        /\ op.name \in ErrorFamily => AsErrorFamily(StatusOf(op.name), op.cause, op.arg)
        /\ op.name \in SuccessFamily => AsSuccessFamily(StatusOf(op.name), op.arg)
        /\ (op.name = "Send" /\ op.given.variant = "ErrorResponse") =>
                AsErrorFamily(op.given.status, op.given.err, StringValue(op.given.message))
        /\ (op.name = "Send" /\ op.given.variant = "SuccessResponse") =>
                AsSuccessFamily(op.given.status, op.given.body)

\* C20 witness: Send(Error(403, cause, "a")) with a logger logged the cause and
\* wrote 403 with the formatted message
C20_Witness ==
    /\ pc = "done" /\ op.name = "Send" /\ ~rw.failed
    /\ op.given = [variant |-> "ErrorResponse", status |-> 403, err |-> "cause",
                   message |-> <<97>>]
    /\ resp.options = [logger |-> "logger", errorFormatter |-> "customFormatter",
                       contentFormatter |-> "contentFormatter"]
    /\ rw.code = 403 /\ rw.body = <<69, 82, 82, 79, 82, 58, 32, 97>>
    /\ log = <<[level |-> "ERROR", msg |-> <<97>>, status |-> 403, error |-> "cause"]>>

\* C20 witness: Send(Success(202, value)) wrote 202 and the bytes of the value
C20_WitnessSuccess ==
    /\ pc = "done" /\ op.name = "Send" /\ ~rw.failed
    /\ op.given.variant = "SuccessResponse" /\ op.given.status = 202
    /\ op.given.body = StringValue(<<97>>)
    /\ resp.options.contentFormatter = "contentFormatter"
    /\ rw.code = 202 /\ rw.body = <<97>> /\ efCalls = <<>> /\ log = <<>>

\* C21: Status() of every outcome, built by Success or Error or left at the zero
\* value of its type, returns a status that is not zero.
C21_StatusNonZero ==
    pc = "statusReturned" => op.code # 0

\* C24: Send204 writes status 204 and the bytes the configured content formatter
\* returns for nil, the formatter being called exactly once and on nil, with a
\* Content-Length that is the count of those bytes; this holds for the default
\* formatter and for one set with WithContentFormatter.
C24_NoContentBody ==
    (pc = "done" /\ op.name = "Send204") =>
        LET r == callContentFormatter(resp.options.contentFormatter, NilValue, <<>>)
        IN  /\ rw.code = 204
            /\ cfCalls = << <<resp.options.contentFormatter, NilValue>> >>
            /\ LastCall.call = "Write" /\ LastCall.bytes = r.heap[r.ref]
            /\ rw.header["Content-Length"] = Sprintf_d(Len(r.heap[r.ref]))
            /\ (~rw.failed => rw.body = r.heap[r.ref])

\* C24 witness: with the caller's content formatter Send204 wrote "custom" and a
\* Content-Length of 6
C24_Witness ==
    /\ pc = "done" /\ op.name = "Send204" /\ ~rw.failed
    /\ resp.options.contentFormatter = "customContentFormatter"
    /\ rw.code = 204 /\ rw.body = <<99, 117, 115, 116, 111, 109>>
    /\ rw.header["Content-Length"] = "6"

\* C24 witness: with the default content formatter the body is empty
C24_WitnessDefault ==
    /\ pc = "done" /\ op.name = "Send204" /\ ~rw.failed
    /\ resp.options.contentFormatter = "contentFormatter"
    /\ rw.code = 204 /\ rw.body = <<>> /\ rw.header["Content-Length"] = "0"

\* C25: for a message that has both String() and Error(), MessageToString returns
\* what String() returns: called on its own, in the log entry of the cause, and in
\* the body the default error formatter produces.
C25_StringerFirst ==
    /\ (pc = "textReturned" /\ {"stringer", "error"} \subseteq formatted.caps) =>
            Result = StringerText
    /\ (op.name \in ErrorFamily /\ {"stringer", "error"} \subseteq op.arg.caps) =>
            /\ \A i \in DOMAIN CauseEntries : CauseEntries[i].msg = StringerText
            /\ (pc = "done" /\ resp.options.errorFormatter = "stringFormatter") =>
                    formatted = StringValue(StringerText)

\* C25 witness: MessageToString of such a message returned the String() text, which
\* is not the Error() text
C25_Witness ==
    /\ pc = "textReturned" /\ formatted.caps = {"stringer", "error"}
    /\ Result = StringerText /\ Result # ErrorText

\* C25 witness: Send400 of such a message logged and sent the String() text
C25_WitnessSend ==
    /\ pc = "done" /\ op.name = "Send400" /\ op.arg.caps = {"stringer", "error"}
    /\ resp.options.errorFormatter = "stringFormatter"
    /\ resp.options.contentFormatter = "contentFormatter"
    /\ Len(log) >= 1 /\ log[1].msg = StringerText
    /\ LastCall.bytes = StringerText

\* the status each redirect operation is documented to answer with
RedirectStatus(name) ==
    CASE name = "Redirect301" -> 301 [] name = "Redirect302" -> 302
      [] name = "Redirect303" -> 303 [] name = "Redirect307" -> 307

\* C26: a redirect operation makes one call on the writer, http.Redirect with the
\* request, the location and its own code; it calls no formatter and no logger, and
\* it makes no Header.Set call: Content-Length stays unset and Content-Type is
\* unset or the one http.Redirect chose.
C26_RedirectDelegates ==
    op.name \in RedirectFamily =>
        /\ pc = "redirected"
        /\ rw.calls = << Call("http.Redirect", op.given.method, op.given.location,
                              RedirectStatus(op.name), <<>>) >>
        /\ rw.code = RedirectStatus(op.name)
        /\ rw.header["Location"] = op.given.location
        /\ efCalls = <<>> /\ cfCalls = <<>> /\ log = <<>>
        /\ rw.header["Content-Length"] = ""
        /\ rw.header["Content-Type"] =
                IF op.given.method \in {"GET", "HEAD"} THEN "text/html; charset=utf-8" ELSE ""

\* C26 witness: Redirect303 of a POST on a JSON pipeline with a logger answered 303
\* with the location and no Content-Type
C26_Witness ==
    /\ pc = "redirected" /\ op.name = "Redirect303" /\ ctor = "JSONResponder"
    /\ resp.options.logger = "logger"
    /\ op.given.method = "POST" /\ op.given.location = "/a"
    /\ rw.code = 303 /\ rw.header["Location"] = "/a"
    /\ rw.header["Content-Type"] = "" /\ rw.body = <<>> /\ Len(rw.calls) = 1

\* the operations that go through send
SendFamily == SuccessFamily \cup ErrorFamily \cup {"Send204", "Send"}

\* C27: during a send operation the only headers set are Content-Type and
\* Content-Length; a header the writer already carried keeps its value and no
\* other header appears.
C27_OnlyTwoHeaders ==
    op.name \in SendFamily =>
        /\ \A i \in DOMAIN rw.calls :
                rw.calls[i].call = "Header.Set" =>
                    rw.calls[i].name \in {"Content-Type", "Content-Length"}
        /\ \A n \in HeaderNames \ {"Content-Type", "Content-Length"} :
                rw.header[n] = NewWriter.header[n]

\* C27 witness: a completed send set its two headers and left X-Request-Id alone
C27_Witness ==
    /\ pc = "done" /\ op.name = "Send201"
    /\ rw.header["Content-Type"] = resp.contentType /\ rw.header["Content-Length"] = "2"
    /\ rw.header["X-Request-Id"] = "r1" /\ rw.header["Location"] = ""

\* C28: in an error-family operation the entry of the cause is logged while the
\* writer is still untouched, and the entry of a failed write is logged after it
\* and after the Write call; with a cause, a logger and a failing write the log is
\* those two entries in that order, both with the status of the operation.
C28_LogOrder ==
    op.name \in ErrorFamily =>
        /\ pc \in {"logError", "errorFormatter", "contentFormatter", "send"} => rw = NewWriter
        /\ rw.calls # <<>> =>
                CauseEntries = IF op.cause # "nil" /\ resp.options.logger # "nil"
                               THEN <<CauseEntry>> ELSE <<>>
        /\ CauseEntries # <<>> => log[1] = CauseEntry
        /\ WriteEntries # <<>> =>
                /\ log[Len(log)].error = "write error"
                /\ LastCall.call = "Write"
        /\ (pc = "done" /\ op.cause # "nil" /\ resp.options.logger # "nil" /\ rw.failed) =>
                log = <<LogEntry(toText(op.arg), StatusOf(op.name), op.cause),
                        LogEntry(FailedToWrite, StatusOf(op.name), "write error")>>

\* C28 witness: Send500 with a cause, a logger and a failing write logged two entries
C28_Witness ==
    /\ pc = "done" /\ op.name = "Send500" /\ op.cause = "cause" /\ rw.failed
    /\ resp.options.logger = "logger" /\ op.arg = StringValue(<<97>>)
    /\ Len(log) = 2
    /\ log[1].msg = <<97>> /\ log[1].status = 500 /\ log[1].error = "cause"
    /\ log[2].msg = FailedToWrite /\ log[2].status = 500

\* C28 witness: the cause is in the log and the writer has not been called yet
C28_WitnessBefore ==
    /\ pc = "errorFormatter" /\ op.name = "Send400" /\ Len(log) = 1 /\ rw.calls = <<>>

\* C29: a completed send has called the content formatter exactly once; an
\* error-family send has called the error formatter exactly once, on the caller's
\* message as given, and handed what it returned to the content formatter; a
\* success-family send and Send204 never call the error formatter and hand the
\* caller's value (nil for Send204) to the content formatter.
C29_FormatterCalls ==
    op.name \in SendFamily \ {"Send"} =>
        /\ Len(cfCalls) <= 1 /\ Len(efCalls) <= 1
        /\ (pc = "done" /\ op.name \in ErrorFamily) =>
                /\ efCalls = << <<resp.options.errorFormatter, op.arg>> >>
                /\ cfCalls = << <<resp.options.contentFormatter,
                                  callErrorFormatter(resp.options.errorFormatter, op.arg).v>> >>
        /\ op.name \in SuccessFamily \cup {"Send204"} =>
                /\ efCalls = <<>>
                /\ pc = "done" => cfCalls = << <<resp.options.contentFormatter, op.arg>> >>

\* C29 witness: Send404 of a value that is not a string reached the custom error
\* formatter as that value, once, and the content formatter got the formatted text
C29_Witness ==
    /\ pc = "done" /\ op.name = "Send404"
    /\ op.arg.k = "obj" /\ op.arg.caps = {"stringer"}
    /\ resp.options.errorFormatter = "customFormatter"
    /\ efCalls = << <<"customFormatter", op.arg>> >>
    /\ Len(cfCalls) = 1 /\ cfCalls[1][2].k = "string"

\* C30: every pipeline New returns has a content formatter and an error formatter
\* that can be called, whatever the overrides.
C30_FormattersNotNil ==
    resp # NoResponder =>
        /\ resp.options.contentFormatter # "nil"
        /\ resp.options.errorFormatter # "nil"

\* the body a send of the operation o writes when it runs alone
AloneBody(o) ==
    LET v == IF o.name \in ErrorFamily
             THEN callErrorFormatter(resp.options.errorFormatter, o.arg).v
             ELSE o.arg
        r == callContentFormatter(resp.options.contentFormatter, v, <<SharedSlice>>)
    IN  r.heap[r.ref]

\* C22: while several threads send on one responder, each to its own writer, the
\* responder stays what New built from its content type and options, the caller's
\* shared slice keeps its bytes, a thread that has not reached send has not touched
\* its writer, and the writer of every send that completed holds exactly the
\* headers, the status and the body of that send run alone.
C22_ConcurrentSends ==
    /\ resp = New(ctype, opts)
    /\ heap[1] = SharedSlice
    /\ \A t \in DOMAIN threads :
            LET th == threads[t]
            IN  /\ th.pc \notin {"write", "done"} => th.rw = NewWriter
                /\ th.pc = "done" =>
                        /\ Len(th.rw.body) <= Len(AloneBody(th.op))
                        /\ th.rw = Sent(th.op.code, AloneBody(th.op), Len(th.rw.body),
                                        th.rw.failed)

\* C22 witness: two threads are between the status and the write of the body at the
\* same time, with different bodies
C22_Witness ==
    /\ threads[1].pc = "write" /\ threads[2].pc = "write"
    /\ threads[1].op.name = "Send404" /\ threads[2].op.name = "Send200"
    /\ heap[threads[1].content] # heap[threads[2].content]

\* C22 witness: both have completed; the second allocated its body before the
\* first, and each writer has its own body
C22_WitnessDone ==
    /\ threads[1].pc = "done" /\ threads[2].pc = "done"
    /\ threads[1].op.name = "Send404" /\ threads[2].op.name = "Send200"
    /\ threads[2].content < threads[1].content
    /\ threads[1].rw.code = 404 /\ threads[1].rw.body = <<69, 82, 82, 79, 82, 58, 32, 34>>
    /\ threads[2].rw.code = 200 /\ threads[2].rw.body = <<97>>
    /\ Len(log) = 1 /\ log[1].status = 404

====
